---- MODULE Spec2Model ----
(***************************************************************************)
(* WebRag: the URL ingestion pipeline (app.py ingest_url, the queue,       *)
(* ingestion_worker.py URLIngestionWorker) and the FAISS-backed vector     *)
(* store (vector_store.py VectorStore), as a state machine.                *)
(*                                                                         *)
(* Texts are sequences of characters.  A URL is a record of its scheme     *)
(* and the rest of the string.  The metadata store is the pair of tables   *)
(* urls (url_metadata, keyed by the unique url column) and chunks          *)
(* (chunk_metadata).  The vector store of the worker is the pair           *)
(* index / id_map in memory and the two files fileIndex / fileMap.         *)
(*                                                                         *)
(* Fault model of Spec: the collaborators that can raise are the content   *)
(* fetch (requests / html2text) and the embedding model; the metadata      *)
(* database and the file system do not fail, and the worker process is     *)
(* restarted only between two jobs.  The title column is not modelled.     *)
(*                                                                         *)
(* SpecDb adds a metadata store whose flush and commit can raise, SpecFs a  *)
(* file system that loses and damages the index files, SpecQuery the Query  *)
(* Service (app.py query_rag), SpecTwo a second worker process.  SpecSnap   *)
(* is SpecQuery with save_index as its two writes.  SpecFair and SpecDbFair *)
(* are Spec and SpecDb under a worker whose loop keeps taking steps.        *)
(* SpecChunk and SpecSearch apply chunk_text and search to drawn arguments. *)
(***************************************************************************)
EXTENDS Integers, Sequences, FiniteSets, TLC

VARIABLES
    urls,        \* url_metadata table: url -> row
    chunks,      \* chunk_metadata table: set of rows
    queue,       \* the Redis list QUEUE_NAME, head first
    wk,          \* the worker: position in run/process_url and its locals
    index,       \* worker's VectorStore.index: the sequence of stored vectors
    id_map,      \* worker's VectorStore.id_map: position -> chunk id
    fileIndex,   \* index.faiss on disk
    fileMap,     \* id_map.pkl on disk
    alive,       \* the worker's run loop has not been left by an exception
    session,     \* the worker's database session: "active", or "inactive" after a failed flush
    loaded,      \* the worker's VectorStore was built from the two files
    response,    \* status code of the last ingest_url response (0: none yet)
    returned,    \* every position an add_embeddings call has returned so far
    retries,     \* per url: how often ingest_url reset it from FAILED to PENDING
    nevents,     \* number of requests, foreign pushes and restarts so far
    cx,          \* the chunk_text harness: arguments and result
    qr,          \* the Query Service: the last POST /query and its response
    other        \* a second worker process, when one is running: its locals and store

vars == <<urls, chunks, queue, wk, index, id_map, fileIndex, fileMap, alive,
          session, loaded, response, returned, retries, nevents, cx, qr, other>>

sysvars == <<urls, chunks, queue, wk, index, id_map, fileIndex, fileMap, alive,
             session, loaded, response, returned, retries, nevents, qr, other>>

----------------------------------------------------------------------------
(* Bounds of the model *)

MaxEvents == 4
MaxTextLen == 4
MaxL == 3
MaxM == 4

(* config.py, scaled down (each is read from the environment; the defaults
   are 500, 50 and 100) *)
CHUNK_SIZE == 3
CHUNK_OVERLAP == 1
MAX_CHUNKS_PER_URL == 2

(* models.py: faiss_id is nullable; -1 stands for NULL *)
NoFaissId == -1

NULL == "NULL"

PENDING == "pending"
PROCESSING == "processing"
COMPLETED == "completed"
FAILED == "failed"

IngestionStatus == {PENDING, PROCESSING, COMPLETED, FAILED}

----------------------------------------------------------------------------
(* Inputs *)

U1 == [scheme |-> "https", rest |-> "example.com/a"]
U2 == [scheme |-> "http", rest |-> "example.com/b"]
UBad == [scheme |-> "ftp", rest |-> "example.com/c"]
UOrphan == [scheme |-> "https", rest |-> "example.com/orphan"]

(* request bodies of POST /ingest-url: no body, or {"url": u} *)
NoBody == [kind |-> "nobody"]
IngestBodies == {NoBody} \cup {[kind |-> "url", url |-> u] : u \in {U1, U2, UBad}}

(* cleaned page texts the fetch can return *)
Contents == { <<>>, <<"a", "b">>, <<"a", "b", "c", "d", "e", "f">> }

(* payloads on the queue *)
Job(u) == [kind |-> "job", url |-> u]
MalformedPayload == [kind |-> "malformed"]
NoUrlPayload == [kind |-> "nourl"]
ForeignPayloads == {MalformedPayload, NoUrlPayload, Job(UOrphan)}

----------------------------------------------------------------------------
(* Python helpers *)

Min(a, b) == IF a < b THEN a ELSE b
Max(a, b) == IF a > b THEN a ELSE b

(* text[a:b] for a >= 0 and b >= 0 *)
Slice(text, a, b) == SubSeq(text, a + 1, Min(b, Len(text)))

(* s[:m], also for negative m *)
Take(s, m) == IF m >= 0 THEN SubSeq(s, 1, Min(m, Len(s)))
              ELSE SubSeq(s, 1, Max(0, Len(s) + m))

SetMax(S) == CHOOSE x \in S : \A y \in S : y <= x

----------------------------------------------------------------------------
(* ingestion_worker.py: chunk_text *)

(* chunk_loop with the next chunk starting where the last one ended (the
   overlap is forgotten) *)
RECURSIVE chunk_loop_NoOverlap(_, _, _, _, _)
chunk_loop_NoOverlap(text, start, acc, L, O) ==
    IF start < Len(text)
    THEN LET end == start + L
             chunk == Slice(text, start, end)
         IN chunk_loop_NoOverlap(text, end, Append(acc, chunk), L, O)
    ELSE acc

(* chunk_loop that stops before a last chunk shorter than L *)
RECURSIVE chunk_loop_FullOnly(_, _, _, _, _)
chunk_loop_FullOnly(text, start, acc, L, O) ==
    IF start + L <= Len(text)
    THEN LET end == start + L
             chunk == Slice(text, start, end)
         IN chunk_loop_FullOnly(text, end - O, Append(acc, chunk), L, O)
    ELSE acc

RECURSIVE chunk_loop(_, _, _, _, _)
chunk_loop(text, start, acc, L, O) ==
    IF start < Len(text)
    THEN LET end == start + L
             chunk == Slice(text, start, end)
         IN chunk_loop(text, end - O, Append(acc, chunk), L, O)
    ELSE acc

chunk_text_with(text, L, O, M) == Take(chunk_loop(text, 0, <<>>, L, O), M)

chunk_text(text) == chunk_text_with(text, CHUNK_SIZE, CHUNK_OVERLAP, MAX_CHUNKS_PER_URL)
----------------------------------------------------------------------------
(* models.py: the two tables *)

(* URLMetadata(url=url, status=PENDING): the column defaults *)
NewUrlRow == [status |-> PENDING, content_length |-> 0, chunk_count |-> 0,
              error_message |-> NULL, completed_at |-> NULL]

(* ChunkMetadata(url_id, chunk_index, content, faiss_id=None) with primary key id *)
ChunkRow(id, u, idx, content) ==
    [id |-> id, url |-> u, chunk_index |-> idx, content |-> content,
     faiss_id |-> NoFaissId]

ChunksOf(table, u) == {c \in table : c.url = u}

ChunkIds(table) == {c.id : c \in table}

(* the integer primary key of the next inserted chunk row: with the default
   DATABASE_URL (SQLite) it is one more than the largest id in the table *)
NextChunkId(table) == IF table = {} THEN 1 ELSE SetMax(ChunkIds(table)) + 1

----------------------------------------------------------------------------
(* vector_store.py *)

EmptyMap == <<>>

NoFile == [exists |-> FALSE, readable |-> FALSE, data |-> <<>>]
File(data) == [exists |-> TRUE, readable |-> TRUE, data |-> data]

CountOf(text, ch) == Cardinality({i \in DOMAIN text : text[i] = ch})

(* embedding_model.encode: one fixed-dimension vector per text, in order *)
Embed(text) == <<Len(text), CountOf(text, "a")>>

Encode(texts) == [i \in DOMAIN texts |-> Embed(texts[i])]

(* config.py: EMBEDDING_DIMENSION, scaled down (384 for all-MiniLM-L6-v2) *)
EMBEDDING_DIMENSION == 2

RECURSIVE Flatten(_)
Flatten(vectors) ==
    IF vectors = <<>> THEN <<>> ELSE Head(vectors) \o Flatten(Tail(vectors))

(* faiss.write_index of a flat index: the dimension, the number of vectors
   and the components of all vectors in one run *)
write_index(ix) ==
    [d |-> EMBEDDING_DIMENSION, ntotal |-> Len(ix), codes |-> Flatten(ix)]

(* faiss.read_index that cuts the components one too short per vector *)
read_index_ShortRows(f) ==
    [i \in 1..f.ntotal |-> SubSeq(f.codes, (i - 1) * f.d + 1, i * f.d - 1)]

(* faiss.read_index: the vectors cut out of the run of components *)
read_index(f) ==
    [i \in 1..f.ntotal |-> SubSeq(f.codes, (i - 1) * f.d + 1, i * f.d)]

(* the keys of a dict in insertion order: id_map is filled in increasing
   order of the positions *)
KeysInOrder(map) ==
    [i \in 1..Cardinality(DOMAIN map) |->
        CHOOSE k \in DOMAIN map : Cardinality({j \in DOMAIN map : j < k}) = i - 1]

(* pickle.dump(self.id_map): the items of the dict *)
pickle_dump(map) ==
    LET keys == KeysInOrder(map)
    IN [i \in DOMAIN keys |-> <<keys[i], map[keys[i]]>>]

(* pickle.load: the dict of the items *)
pickle_load(items) ==
    [k \in {items[i][1] : i \in DOMAIN items} |->
        items[CHOOSE i \in DOMAIN items : items[i][1] = k][2]]

(* _create_new_index *)
create_new_index == [index |-> <<>>, id_map |-> EmptyMap, loaded |-> FALSE]

(* load_or_create_index that never reads the files *)
load_or_create_index_AlwaysNew(fi, fm) == create_new_index

(* load_or_create_index that keeps the index it has read when the map cannot
   be read *)
load_or_create_index_KeepsIndex(fi, fm) ==
    IF fi.exists /\ fm.exists
    THEN IF fi.readable
         THEN IF fm.readable
              THEN [index |-> read_index(fi.data), id_map |-> pickle_load(fm.data),
                    loaded |-> TRUE]
              ELSE [index |-> read_index(fi.data), id_map |-> EmptyMap, loaded |-> TRUE]
         ELSE create_new_index
    ELSE create_new_index

(* load_or_create_index: the store after construction from the two files *)
load_or_create_index(fi, fm) ==
    IF fi.exists /\ fm.exists
    THEN IF fi.readable /\ fm.readable
         THEN [index |-> read_index(fi.data), id_map |-> pickle_load(fm.data),
               loaded |-> TRUE]
         ELSE create_new_index
    ELSE create_new_index

(* positions counted from 0 at every call *)
FaissIds_FromZero(ix, n) == [i \in 1..n |-> i - 1]

(* list(range(ntotal, ntotal + len(embeddings))) *)
FaissIds(ix, n) == [i \in 1..n |-> Len(ix) + i - 1]

(* the zip loop that misses the last pair *)
ZipIntoMap_DropLast(map, fids, cids) ==
    LET n == Min(Len(fids), Len(cids)) - 1
        new == {fids[i] : i \in 1..n}
    IN [p \in DOMAIN map \cup new |->
            IF p \in new THEN cids[CHOOSE i \in 1..n : fids[i] = p] ELSE map[p]]

(* for faiss_id, chunk_id in zip(faiss_ids, chunk_ids): id_map[faiss_id] = chunk_id *)
ZipIntoMap(map, fids, cids) ==
    LET n == Min(Len(fids), Len(cids))
        new == {fids[i] : i \in 1..n}
    IN [p \in DOMAIN map \cup new |->
            IF p \in new THEN cids[CHOOSE i \in 1..n : fids[i] = p] ELSE map[p]]

(* add_embeddings without its save: the new index, the new id_map and the
   returned list *)
add_embeddings(ix, map, texts, chunk_ids) ==
    LET embeddings == Encode(texts)
        faiss_ids == FaissIds(ix, Len(embeddings))
    IN [index |-> ix \o embeddings,
        id_map |-> ZipIntoMap(map, faiss_ids, chunk_ids),
        faiss_ids |-> faiss_ids]

ntotal(ix) == Len(ix)

(* save_index: the two files it writes *)
save_index(ix, map) ==
    [fileIndex |-> File(write_index(ix)), fileMap |-> File(pickle_dump(map))]

(* squared L2 distance of two vectors (IndexFlatL2) *)
RECURSIVE SumSq(_, _, _)
SumSq(a, b, i) ==
    IF i > Len(a) THEN 0 ELSE (a[i] - b[i]) * (a[i] - b[i]) + SumSq(a, b, i + 1)

L2(a, b) == SumSq(a, b, 1)

(* the distance faiss reports for a missing neighbour (label -1): the largest
   float, here a number above every distance of the model *)
PaddingDistance == 1000000

(* position p comes before position r in the result of a search: nearer
   first, and of two vectors at the same distance the earlier one *)
Nearer(dist, p, r) ==
    \/ dist[p] < dist[r]
    \/ dist[p] = dist[r] /\ p < r

(* index.search that returns the first k positions in the order of insertion *)
index_search_Unsorted(ix, qv, k) ==
    [i \in 1..k |->
        IF i <= Len(ix)
        THEN [idx |-> i - 1, distance |-> L2(ix[i], qv)]
        ELSE [idx |-> -1, distance |-> PaddingDistance]]

(* index.search(query_embedding, k): k labels with their distances, the
   nearest first, padded with label -1 when the index holds fewer than k *)
index_search(ix, qv, k) ==
    LET positions == 0..(Len(ix) - 1)
        dist == [p \in positions |-> L2(ix[p + 1], qv)]
        order == [i \in 1..Len(ix) |->
                     CHOOSE p \in positions :
                         Cardinality({r \in positions : Nearer(dist, r, p)}) = i - 1]
    IN [i \in 1..k |->
           IF i <= Len(ix)
           THEN [idx |-> order[i], distance |-> dist[order[i]]]
           ELSE [idx |-> -1, distance |-> PaddingDistance]]

(* search: the (chunk_id, distance) pairs of the labels found in id_map *)
search(ix, map, query, k) ==
    LET found == index_search(ix, Embed(query), k)
        kept == SelectSeq(found, LAMBDA h : h.idx \in DOMAIN map)
    IN [i \in DOMAIN kept |-> <<map[kept[i].idx], kept[i].distance>>]

----------------------------------------------------------------------------
(* The worker's locals *)

IdleWorker == [pc |-> "idle", url |-> UOrphan, content |-> <<>>, fetched |-> FALSE,
               purged |-> 0, chunk_ids |-> <<>>, texts |-> <<>>, faiss_ids |-> <<>>,
               result |-> "none"]

TypeOK ==
    /\ \A u \in DOMAIN urls : urls[u].status \in IngestionStatus
    /\ \A c \in chunks : c.url \in DOMAIN urls
    /\ wk.pc \in {"idle", "purge", "fetch", "embed", "save", "update"}
    /\ alive \in BOOLEAN

(* the chunk_text harness is not in use *)
ChunkOff == [pc |-> "off", text |-> <<>>, L |-> CHUNK_SIZE, O |-> CHUNK_OVERLAP,
             M |-> MAX_CHUNKS_PER_URL, out |-> <<>>]

(* no POST /query handled yet *)
NoQuery == [status |-> 0, query |-> <<>>, top_k |-> 0, hits |-> <<>>,
            sources |-> <<>>, answer |-> "none", llm_calls |-> 0]

(* no second worker process was started *)
NoSecondWorker == [started |-> FALSE]

(* a worker process that is not scheduled: its locals, store and session *)
Parked(w, ix, map, a, sess, ld) ==
    [started |-> TRUE, wk |-> w, index |-> ix, id_map |-> map, alive |-> a,
     session |-> sess, loaded |-> ld]

Init ==
    /\ urls = <<>>
    /\ chunks = {}
    /\ queue = <<>>
    /\ wk = IdleWorker
    /\ index = create_new_index.index
    /\ id_map = create_new_index.id_map
    /\ fileIndex = NoFile
    /\ fileMap = NoFile
    /\ alive = TRUE
    /\ session = "active"
    /\ loaded = FALSE
    /\ response = 0
    /\ returned = {}
    /\ retries = <<>>
    /\ nevents = 0
    /\ cx = ChunkOff
    /\ qr = NoQuery
    /\ other = NoSecondWorker

----------------------------------------------------------------------------
(* app.py: POST /ingest-url *)

(* url.startswith(('http://', 'https://')) *)
ValidUrl(u) == u.scheme \in {"http", "https"}

(* a push at the head of the list (LPUSH) *)
rpush_Front(q, payload) == <<payload>> \o q

(* redis_client.rpush(QUEUE_NAME, json.dumps(job)) *)
rpush(q, payload) == Append(q, payload)

ingest_url(body) ==
    /\ nevents < MaxEvents
    /\ nevents' = nevents + 1
    /\ UNCHANGED <<chunks, wk, index, id_map, fileIndex, fileMap, alive, session, loaded,
                   returned, cx, qr, other>>
    /\ IF body.kind # "url" \/ ~ValidUrl(body.url)
       THEN /\ response' = 400
            /\ UNCHANGED <<urls, queue, retries>>
       ELSE LET url == body.url IN
            IF url \in DOMAIN urls
            THEN CASE urls[url].status = COMPLETED ->
                        /\ response' = 200
                        /\ UNCHANGED <<urls, queue, retries>>
                   [] urls[url].status = PROCESSING ->
                        /\ response' = 202
                        /\ UNCHANGED <<urls, queue, retries>>
                   [] urls[url].status = FAILED ->
                        /\ urls' = [urls EXCEPT ![url].status = PENDING,
                                                ![url].error_message = NULL]
                        /\ retries' = [retries EXCEPT ![url] = @ + 1]
                        /\ queue' = rpush(queue, Job(url))
                        /\ response' = 202
                   [] OTHER ->
                        /\ queue' = rpush(queue, Job(url))
                        /\ response' = 202
                        /\ UNCHANGED <<urls, retries>>
            ELSE /\ urls' = urls @@ (url :> NewUrlRow)
                 /\ retries' = retries @@ (url :> 0)
                 /\ queue' = rpush(queue, Job(url))
                 /\ response' = 202

(* another producer on the shared queue pushes a payload *)
ForeignPush(payload) ==
    /\ nevents < MaxEvents
    /\ nevents' = nevents + 1
    /\ queue' = rpush(queue, payload)
    /\ UNCHANGED <<urls, chunks, wk, index, id_map, fileIndex, fileMap, alive,
                   session, loaded, response, returned, retries, cx, qr, other>>

----------------------------------------------------------------------------
(* app.py: POST /query *)

(* the largest top_k the handler accepts *)
TOP_K_MAX == 20

(* chunk.content[:500], scaled down *)
SOURCE_CONTENT_MAX == 2

(* the (query, top_k) pairs of the requests: an empty and a blank query, top_k
   below and above the accepted range, and accepted ones *)
QueryInputs ==
    { << <<>>, 1 >>, << <<" ">>, 1 >>, << <<"a">>, 0 >>, << <<"a">>, TOP_K_MAX + 1 >>,
      << <<"a">>, 1 >>, << <<"b", "b", "b">>, 3 >> }

(* request bodies of POST /query: no body, a body QueryRequest rejects, or
   {"query": q, "top_k": k} *)
InvalidBody == [kind |-> "invalid"]
QueryBodies == {NoBody, InvalidBody}
                   \cup {[kind |-> "query", query |-> i[1], top_k |-> i[2]] : i \in QueryInputs}

(* what generate_answer returns: the completion, or the text of the error it
   caught; either way a string that is sent as the answer *)
generate_answer(query, context) == "generated"

(* "\n\n".join of the contents of the sources *)
Context(sources) == [i \in DOMAIN sources |-> sources[i].content]

(* not query or len(query.strip()) == 0 *)
IsBlank(query) == \A i \in DOMAIN query : query[i] = " "

ValidQuery(query, top_k) == ~IsBlank(query) /\ top_k >= 1 /\ top_k <= TOP_K_MAX

NoContentAnswer == "No relevant content found in the ingested documents."

chunk_by_id(table, id) == CHOOSE c \in table : c.id = id

source_of(table, hit) ==
    [content |-> Take(chunk_by_id(table, hit[1]).content, SOURCE_CONTENT_MAX),
     distance |-> hit[2],
     chunk_index |-> chunk_by_id(table, hit[1]).chunk_index]

(* the sources in the order in which the database returns the rows (by
   primary key) *)
source_chunks_ByRow(table, search_results) ==
    LET kept == SelectSeq(search_results, LAMBDA hit : hit[1] \in ChunkIds(table))
        nth(i) == CHOOSE j \in DOMAIN kept :
                      Cardinality({m \in DOMAIN kept :
                          kept[m][1] < kept[j][1] \/ (kept[m][1] = kept[j][1] /\ m < j)}) = i - 1
    IN [i \in DOMAIN kept |-> source_of(table, kept[nth(i)])]

(* query_rag, lines 167-180: one source per search result whose chunk row
   exists, in the order of the search results *)
source_chunks(table, search_results) ==
    LET kept == SelectSeq(search_results, LAMBDA hit : hit[1] \in ChunkIds(table))
    IN [i \in DOMAIN kept |-> source_of(table, kept[i])]

(* the response that asks the model although nothing was found *)
no_results_response_AsksModel(query, top_k) ==
    [status |-> 200, query |-> query, top_k |-> top_k, hits |-> <<>>,
     sources |-> <<>>, answer |-> generate_answer(query, <<>>), llm_calls |-> 1]

(* query_rag, lines 157-162 *)
no_results_response(query, top_k) ==
    [status |-> 200, query |-> query, top_k |-> top_k, hits |-> <<>>,
     sources |-> <<>>, answer |-> NoContentAnswer, llm_calls |-> 0]

(* the 400 responses *)
rejected_response ==
    [status |-> 400, query |-> <<>>, top_k |-> 0, hits |-> <<>>,
     sources |-> <<>>, answer |-> "none", llm_calls |-> 0]

(* a VectorStore constructor that saves the empty index it created *)
files_after_load_SavesNew(fi, fm) ==
    IF fi.exists /\ fm.exists /\ fi.readable /\ fm.readable
    THEN [fileIndex |-> fi, fileMap |-> fm]
    ELSE save_index(create_new_index.index, create_new_index.id_map)

(* the two files after VectorStore(): load_or_create_index and
   _create_new_index write nothing *)
files_after_load(fi, fm) == [fileIndex |-> fi, fileMap |-> fm]

(* the chunk rows the session of a request sees (SessionLocal(), line 165):
   the committed ones.  The rows the worker has flushed in its running job
   (chunk_ids) are not committed before the end of the job. *)
committed_chunks ==
    {c \in chunks : \A i \in DOMAIN wk.chunk_ids : c.id # wk.chunk_ids[i]}

(* the response of a handler that asks the model only when a source was
   found *)
answered_response_SkipsEmpty(query, top_k, hits, sources) ==
    IF sources = <<>>
    THEN [status |-> 200, query |-> query, top_k |-> top_k, hits |-> hits,
          sources |-> sources, answer |-> NoContentAnswer, llm_calls |-> 0]
    ELSE [status |-> 200, query |-> query, top_k |-> top_k, hits |-> hits,
          sources |-> sources, answer |-> generate_answer(query, Context(sources)),
          llm_calls |-> 1]

(* query_rag, lines 182-193: generate_answer is called once *)
answered_response(query, top_k, hits, sources) ==
    [status |-> 200, query |-> query, top_k |-> top_k, hits |-> hits,
     sources |-> sources, answer |-> generate_answer(query, Context(sources)),
     llm_calls |-> 1]

(* get_vector_store(): a new VectorStore, built from the two files *)
get_vector_store == load_or_create_index(fileIndex, fileMap)

query_rag(body) ==
    /\ nevents < MaxEvents
    /\ nevents' = nevents + 1
    /\ UNCHANGED <<urls, chunks, queue, wk, index, id_map, alive,
                   session, loaded, response, returned, retries, cx, other>>
    /\ IF body.kind # "query" \/ ~ValidQuery(body.query, body.top_k)
       THEN /\ qr' = rejected_response
            /\ UNCHANGED <<fileIndex, fileMap>>
       ELSE /\ fileIndex' = files_after_load(fileIndex, fileMap).fileIndex
            /\ fileMap' = files_after_load(fileIndex, fileMap).fileMap
            /\ LET vector_store == get_vector_store
                   search_results == search(vector_store.index, vector_store.id_map,
                                            body.query, body.top_k)
               IN IF search_results = <<>>
                  THEN qr' = no_results_response(body.query, body.top_k)
                  ELSE qr' = answered_response(body.query, body.top_k, search_results,
                                               source_chunks(committed_chunks, search_results))

----------------------------------------------------------------------------
(* ingestion_worker.py: run and process_url *)

(* run: `except Exception` around the body of the loop *)
run_catches(exc) == exc \in {"JSONDecodeError", "AttributeError", "Exception"}

(* a worker that pushes the job of an unknown url back on the queue *)
queue_after_drop_Requeues(q, payload) == Append(q, payload)

(* process_url, lines 95-97: the queue when the job of an unknown url was
   dropped *)
queue_after_drop(q, payload) == q

(* the deletion that spares the rows without a faiss_id *)
purge_OnlyIndexed(table, u) ==
    table \ {c \in ChunksOf(table, u) : c.faiss_id # NoFaissId}

(* process_url without the deletion of the existing chunk rows *)
purge_Nothing(table, u) == table

(* process_url, lines 105-111: delete the existing chunk rows of the url *)
purge(table, u) == table \ ChunksOf(table, u)

(* process_url, lines 128-138: one row per chunk, flushed in order *)
create_chunk_rows(table, u, cs) ==
    LET first == NextChunkId(table)
    IN {ChunkRow(first + i - 1, u, i - 1, cs[i]) : i \in DOMAIN cs}

(* the ids of the created rows, in order (chunk_ids) *)
created_ids(table, cs) == [i \in DOMAIN cs |-> NextChunkId(table) + i - 1]

(* the update loop that sets the faiss_id of the first row only *)
update_faiss_ids_FirstOnly(table, chunk_ids, faiss_ids) ==
    {IF Len(chunk_ids) > 0 /\ Len(faiss_ids) > 0 /\ c.id = chunk_ids[1]
     THEN [c EXCEPT !.faiss_id = faiss_ids[1]]
     ELSE c : c \in table}

(* the update loop that pairs the rows with the positions in reverse *)
update_faiss_ids_Reversed(table, chunk_ids, faiss_ids) ==
    LET ids == {chunk_ids[i] : i \in DOMAIN chunk_ids} \cap ChunkIds(table)
        rank(id) == Cardinality({j \in ids : j >= id})
    IN {IF c.id \in ids /\ rank(c.id) <= Len(faiss_ids)
        THEN [c EXCEPT !.faiss_id = faiss_ids[rank(c.id)]]
        ELSE c : c \in table}

(* process_url, lines 144-148: the rows with id in chunk_ids, in the order the
   query returns them (by primary key), zipped with faiss_ids *)
update_faiss_ids(table, chunk_ids, faiss_ids) ==
    LET ids == {chunk_ids[i] : i \in DOMAIN chunk_ids} \cap ChunkIds(table)
        rank(id) == Cardinality({j \in ids : j <= id})
    IN {IF c.id \in ids /\ rank(c.id) <= Len(faiss_ids)
        THEN [c EXCEPT !.faiss_id = faiss_ids[rank(c.id)]]
        ELSE c : c \in table}

(* the dirty attributes of url_metadata that the next commit writes with it:
   content_length is assigned at line 116, once the fetch has returned *)
with_fetched(row, w) ==
    IF w.fetched THEN [row EXCEPT !.content_length = Len(w.content)] ELSE row

(* process_url, lines 158-162: the except block *)
failed_row(row, w, msg) ==
    [with_fetched(row, w) EXCEPT !.status = FAILED, !.error_message = msg]

(* process_url, lines 150-155 *)
completed_row(row, w) ==
    [with_fetched(row, w) EXCEPT !.chunk_count = Len(w.texts),
                                 !.status = COMPLETED,
                                 !.completed_at = "utcnow"]

(* what the worker does with the queue when a job has failed *)
queue_after_failure(q, u) == q

(* the except block of process_url, as the end of a step *)
process_url_except(w, msg) ==
    /\ urls' = [urls EXCEPT ![w.url] = failed_row(@, w, msg)]
    /\ queue' = queue_after_failure(queue, w.url)
    /\ wk' = [w EXCEPT !.pc = "idle", !.result = "failed",
                       !.chunk_ids = <<>>, !.texts = <<>>, !.faiss_ids = <<>>]

(* run, lines 171-179, and process_url up to the commit of line 102 *)
run_pop ==
    /\ alive
    /\ wk.pc = "idle"
    /\ queue # <<>>
    /\ LET payload == Head(queue) IN
       /\ UNCHANGED <<chunks, index, id_map, fileIndex, fileMap, session, loaded,
                      response, returned, retries, nevents, cx, qr, other>>
       /\ CASE payload.kind = "malformed" ->
                 /\ queue' = Tail(queue)
                 /\ alive' = run_catches("JSONDecodeError")
                 /\ wk' = [IdleWorker EXCEPT !.result = "error"]
                 /\ UNCHANGED urls
            [] payload.kind = "nourl" ->
                 /\ queue' = Tail(queue)
                 /\ wk' = [IdleWorker EXCEPT !.result = "skipped"]
                 /\ UNCHANGED <<urls, alive>>
            [] payload.kind = "job" /\ session = "inactive" ->
                 /\ queue' = Tail(queue)
                 /\ alive' = run_catches("Exception")
                 /\ wk' = [IdleWorker EXCEPT !.url = payload.url, !.result = "error"]
                 /\ UNCHANGED urls
            [] payload.kind = "job" /\ session = "active"
                                   /\ payload.url \notin DOMAIN urls ->
                 /\ queue' = queue_after_drop(Tail(queue), payload)
                 /\ wk' = [IdleWorker EXCEPT !.url = payload.url, !.result = "dropped"]
                 /\ UNCHANGED <<urls, alive>>
            [] payload.kind = "job" /\ session = "active"
                                   /\ payload.url \in DOMAIN urls ->
                 /\ queue' = Tail(queue)
                 /\ urls' = [urls EXCEPT ![payload.url].status = PROCESSING]
                 /\ wk' = [IdleWorker EXCEPT !.pc = "purge", !.url = payload.url,
                                             !.result = "running"]
                 /\ UNCHANGED alive

(* process_url, lines 105-111 *)
process_url_purge ==
    /\ wk.pc = "purge"
    /\ chunks' = purge(chunks, wk.url)
    /\ wk' = [wk EXCEPT !.pc = "fetch",
                        !.purged = Cardinality(ChunksOf(chunks, wk.url))]
    /\ UNCHANGED <<urls, queue, index, id_map, fileIndex, fileMap, alive, session,
                   loaded, response, returned, retries, nevents, cx, qr, other>>

(* process_url, lines 113-138: fetch_and_clean_content raises *)
process_url_fetch_fails ==
    /\ wk.pc = "fetch"
    /\ process_url_except(wk, "fetch error")
    /\ UNCHANGED <<chunks, index, id_map, fileIndex, fileMap, alive, session,
                   loaded, response, returned, retries, nevents, cx, qr, other>>

(* process_url, lines 113-138: the fetch returns content *)
process_url_fetch(content) ==
    /\ wk.pc = "fetch"
    /\ LET w == [wk EXCEPT !.content = content, !.fetched = TRUE]
           cs == chunk_text(content)
       IN IF cs = <<>>
          THEN /\ process_url_except(w, "No content chunks generated")
               /\ UNCHANGED chunks
          ELSE /\ chunks' = chunks \cup create_chunk_rows(chunks, w.url, cs)
               /\ wk' = [w EXCEPT !.pc = "embed", !.texts = cs,
                                  !.chunk_ids = created_ids(chunks, cs)]
               /\ UNCHANGED <<urls, queue>>
    /\ UNCHANGED <<index, id_map, fileIndex, fileMap, alive, session,
                   loaded, response, returned, retries, nevents, cx, qr, other>>

(* process_url, line 141: embedding_model.encode raises *)
process_url_embed_fails ==
    /\ wk.pc = "embed"
    /\ process_url_except(wk, "embedding error")
    /\ UNCHANGED <<chunks, index, id_map, fileIndex, fileMap, alive, session,
                   loaded, response, returned, retries, nevents, cx, qr, other>>

(* process_url, line 141: add_embeddings with its save_index *)
process_url_embed ==
    /\ wk.pc = "embed"
    /\ LET r == add_embeddings(index, id_map, wk.texts, wk.chunk_ids) IN
       /\ index' = r.index
       /\ id_map' = r.id_map
       /\ fileIndex' = save_index(r.index, r.id_map).fileIndex
       /\ fileMap' = save_index(r.index, r.id_map).fileMap
       /\ returned' = returned \cup {r.faiss_ids[i] : i \in DOMAIN r.faiss_ids}
       /\ wk' = [wk EXCEPT !.pc = "update", !.faiss_ids = r.faiss_ids]
    /\ UNCHANGED <<urls, chunks, queue, alive, session, loaded, response, retries,
                   nevents, cx, qr, other>>

(* The metadata store raises.  A flush that fails (inside commit, or the
   explicit flush of line 136) rolls the transaction back and leaves the
   session inactive: until Session.rollback() is called, which the worker never
   does, every later use of the session raises.  The commit of the except block
   (line 162) therefore raises too, the exception leaves process_url and is
   caught by run. *)
process_url_except_raises(w) ==
    /\ session' = "inactive"
    /\ alive' = run_catches("Exception")
    /\ wk' = [w EXCEPT !.pc = "idle", !.result = "error",
                       !.chunk_ids = <<>>, !.texts = <<>>, !.faiss_ids = <<>>]
    /\ UNCHANGED <<urls, queue>>

(* models.py, line 42: faiss_id is unique among the rows that have one *)
faiss_id_unique(table) ==
    \A c \in table : \A d \in table :
        (c.faiss_id # NoFaissId /\ c.faiss_id = d.faiss_id) => c.id = d.id

(* the rows flushed in this job are rolled back with the failed commit *)
rolled_back(table, chunk_ids) ==
    {c \in table : \A i \in DOMAIN chunk_ids : c.id # chunk_ids[i]}

(* process_url, lines 143-156.  When a faiss_id to be written is held by
   another row, the commit raises (unique constraint), the rows of this job
   are rolled back and the except block raises as well. *)
process_url_complete ==
    /\ wk.pc = "update"
    /\ LET updated == update_faiss_ids(chunks, wk.chunk_ids, wk.faiss_ids) IN
       IF faiss_id_unique(updated)
       THEN /\ chunks' = updated
            /\ urls' = [urls EXCEPT ![wk.url] = completed_row(@, wk)]
            /\ wk' = [wk EXCEPT !.pc = "idle", !.result = "completed",
                                !.chunk_ids = <<>>, !.faiss_ids = <<>>]
            /\ UNCHANGED <<queue, alive, session>>
       ELSE /\ chunks' = rolled_back(chunks, wk.chunk_ids)
            /\ process_url_except_raises(wk)
    /\ UNCHANGED <<index, id_map, fileIndex, fileMap,
                   loaded, response, returned, retries, nevents, cx, qr, other>>

(* the worker process is stopped between two jobs and started again:
   URLIngestionWorker.__init__ builds a VectorStore from the files *)
restart_worker ==
    /\ wk.pc = "idle"
    /\ nevents < MaxEvents
    /\ nevents' = nevents + 1
    /\ LET vs == load_or_create_index(fileIndex, fileMap) IN
       /\ index' = vs.index
       /\ id_map' = vs.id_map
       /\ loaded' = vs.loaded
    /\ wk' = IdleWorker
    /\ alive' = TRUE
    /\ session' = "active"
    /\ UNCHANGED <<urls, chunks, queue, fileIndex, fileMap, response, returned,
                   retries, cx, qr, other>>

(* process_url, line 111: the commit of the deletes raises *)
process_url_purge_commit_fails ==
    /\ wk.pc = "purge"
    /\ session = "active"
    /\ ChunksOf(chunks, wk.url) # {}
    /\ process_url_except_raises(wk)
    /\ UNCHANGED <<chunks, index, id_map, fileIndex, fileMap, loaded, response,
                   returned, retries, nevents, cx, qr, other>>

(* process_url, line 136: the flush of a new chunk row raises *)
process_url_flush_fails(content) ==
    /\ wk.pc = "fetch"
    /\ session = "active"
    /\ chunk_text(content) # <<>>
    /\ process_url_except_raises([wk EXCEPT !.content = content, !.fetched = TRUE])
    /\ UNCHANGED <<chunks, index, id_map, fileIndex, fileMap, loaded, response,
                   returned, retries, nevents, cx, qr, other>>

(* process_url, line 155: the final commit raises; the rows flushed in this
   job are rolled back *)
process_url_commit_fails ==
    /\ wk.pc = "update"
    /\ session = "active"
    /\ chunks' = rolled_back(chunks, wk.chunk_ids)
    /\ process_url_except_raises(wk)
    /\ UNCHANGED <<index, id_map, fileIndex, fileMap, loaded, response,
                   returned, retries, nevents, cx, qr, other>>

DbFailure ==
    \/ process_url_purge_commit_fails
    \/ \E content \in Contents : process_url_flush_fails(content)
    \/ process_url_commit_fails

WorkerNext ==
    \/ run_pop
    \/ process_url_purge
    \/ process_url_fetch_fails
    \/ \E content \in Contents : process_url_fetch(content)
    \/ process_url_embed_fails
    \/ process_url_embed
    \/ process_url_complete

Next ==
    \/ \E body \in IngestBodies : ingest_url(body)
    \/ \E payload \in ForeignPayloads : ForeignPush(payload)
    \/ WorkerNext
    \/ restart_worker

Spec == Init /\ [][Next]_vars

(* the ingestion pipeline (requests and the worker, with a fetch and an
   embedding model that do not raise) with the Query Service *)
NextQuery ==
    \/ \E body \in IngestBodies : ingest_url(body)
    \/ run_pop
    \/ process_url_purge
    \/ \E content \in Contents : process_url_fetch(content)
    \/ process_url_embed
    \/ process_url_complete
    \/ \E body \in QueryBodies : query_rag(body)

SpecQuery == Init /\ [][NextQuery]_vars

(* The file system loses or damages one of the two index files (a file
   removed, truncated or overwritten by something else): reading a damaged
   file raises. *)
lose_file(which) ==
    /\ nevents < MaxEvents
    /\ nevents' = nevents + 1
    /\ IF which = "index"
       THEN fileIndex.exists /\ fileIndex' = NoFile /\ UNCHANGED fileMap
       ELSE fileMap.exists /\ fileMap' = NoFile /\ UNCHANGED fileIndex
    /\ UNCHANGED <<urls, chunks, queue, wk, index, id_map, alive, session, loaded,
                   response, returned, retries, cx, qr, other>>

damage_file(which) ==
    /\ nevents < MaxEvents
    /\ nevents' = nevents + 1
    /\ IF which = "index"
       THEN /\ fileIndex.exists /\ fileIndex.readable
            /\ fileIndex' = [fileIndex EXCEPT !.readable = FALSE]
            /\ UNCHANGED fileMap
       ELSE /\ fileMap.exists /\ fileMap.readable
            /\ fileMap' = [fileMap EXCEPT !.readable = FALSE]
            /\ UNCHANGED fileIndex
    /\ UNCHANGED <<urls, chunks, queue, wk, index, id_map, alive, session, loaded,
                   response, returned, retries, cx, qr, other>>

(* the ingestion pipeline (with a fetch and an embedding model that do not
   raise) and restarts of the worker, on a file system that loses and damages
   the index files *)
NextFs ==
    \/ \E body \in IngestBodies : ingest_url(body)
    \/ run_pop
    \/ process_url_purge
    \/ \E content \in Contents : process_url_fetch(content)
    \/ process_url_embed
    \/ process_url_complete
    \/ restart_worker
    \/ \E which \in {"index", "map"} : lose_file(which)
    \/ \E which \in {"index", "map"} : damage_file(which)

SpecFs == Init /\ [][NextFs]_vars

(* A second worker process is started (start_worker): it builds its own
   VectorStore from the files and its own session. *)
start_second_worker ==
    /\ ~other.started
    /\ wk.pc \notin {"embed", "update"}
    /\ nevents < MaxEvents
    /\ nevents' = nevents + 1
    /\ LET vs == load_or_create_index(fileIndex, fileMap) IN
       other' = Parked(IdleWorker, vs.index, vs.id_map, TRUE, "active", vs.loaded)
    /\ UNCHANGED <<urls, chunks, queue, wk, index, id_map, fileIndex, fileMap, alive,
                   session, loaded, response, returned, retries, cx, qr>>

(* The other worker process runs next: the variables of the worker stand for
   the process that runs.  With the default SQLite database a process that has
   flushed chunk rows holds the write lock until its commit, and the
   statements of the other process wait for it: the processes are not
   switched between the flush and the commit. *)
switch_worker ==
    /\ other.started
    /\ wk.pc \notin {"embed", "update"}
    /\ wk' = other.wk
    /\ index' = other.index
    /\ id_map' = other.id_map
    /\ alive' = other.alive
    /\ session' = other.session
    /\ loaded' = other.loaded
    /\ other' = Parked(wk, index, id_map, alive, session, loaded)
    /\ UNCHANGED <<urls, chunks, queue, fileIndex, fileMap, response, returned,
                   retries, nevents, cx, qr>>

(* the ingestion pipeline (with a fetch and an embedding model that do not
   raise) with up to two worker processes *)
NextTwo ==
    \/ \E body \in IngestBodies : ingest_url(body)
    \/ run_pop
    \/ process_url_purge
    \/ \E content \in Contents : process_url_fetch(content)
    \/ process_url_embed
    \/ process_url_complete
    \/ start_second_worker
    \/ switch_worker

SpecTwo == Init /\ [][NextTwo]_vars

(* add_embeddings up to the first write of save_index (lines 54-95): the
   store in memory holds the new vectors and entries and index.faiss is
   written; id_map.pkl is still the file of the last save *)
add_embeddings_write_index ==
    /\ wk.pc = "embed"
    /\ LET r == add_embeddings(index, id_map, wk.texts, wk.chunk_ids) IN
       /\ index' = r.index
       /\ id_map' = r.id_map
       /\ fileIndex' = save_index(r.index, r.id_map).fileIndex
       /\ returned' = returned \cup {r.faiss_ids[i] : i \in DOMAIN r.faiss_ids}
       /\ wk' = [wk EXCEPT !.pc = "save", !.faiss_ids = r.faiss_ids]
    /\ UNCHANGED <<urls, chunks, queue, fileMap, alive, session, loaded, response,
                   retries, nevents, cx, qr, other>>

(* save_index, lines 96-97: the second write, and the return of
   add_embeddings *)
save_index_write_map ==
    /\ wk.pc = "save"
    /\ fileMap' = save_index(index, id_map).fileMap
    /\ wk' = [wk EXCEPT !.pc = "update"]
    /\ UNCHANGED <<urls, chunks, queue, index, id_map, fileIndex, alive, session,
                   loaded, response, returned, retries, nevents, cx, qr, other>>

(* the Query Service and the worker as the two processes they are: a query
   can be handled between any two steps of the worker, also between the two
   writes of save_index (the fetch and the embedding model do not raise) *)
NextSnap ==
    \/ \E body \in IngestBodies : ingest_url(body)
    \/ run_pop
    \/ process_url_purge
    \/ \E content \in Contents : process_url_fetch(content)
    \/ add_embeddings_write_index
    \/ save_index_write_map
    \/ process_url_complete
    \/ \E body \in QueryBodies : query_rag(body)

SpecSnap == Init /\ [][NextSnap]_vars

(* the same system when the metadata store can raise *)
NextDb == Next \/ DbFailure

SpecDb == Init /\ [][NextDb]_vars

(* run, lines 168-183: the loop never ends, blpop returns as soon as the queue
   holds a job, and every call of a collaborator returns or raises: a step of
   the worker that stays possible is eventually taken *)
WorkerStep == WorkerNext \/ DbFailure

FairWorker == WF_vars(WorkerStep)

SpecFair == Spec /\ FairWorker

SpecDbFair == SpecDb /\ FairWorker

----------------------------------------------------------------------------
(* chunk_text on its own: the arguments are drawn in the initial state, the
   configuration (L, O, M) with 0 <= O < L and M >= 0 *)

Alphabet == {"a", "b"}

RECURSIVE TextsOfLen(_)
TextsOfLen(n) ==
    IF n = 0 THEN {<<>>}
    ELSE {Append(t, ch) : t \in TextsOfLen(n - 1), ch \in Alphabet}

Texts == UNION {TextsOfLen(n) : n \in 0..MaxTextLen}

(* config.py: the defaults of CHUNK_SIZE, CHUNK_OVERLAP, MAX_CHUNKS_PER_URL *)
DEFAULT_CHUNK_SIZE == 500
DEFAULT_CHUNK_OVERLAP == 50
DEFAULT_MAX_CHUNKS_PER_URL == 100

(* a cleaned text of 1200 characters *)
ScenarioText == [i \in 1..1200 |-> IF i % 7 = 0 \/ i % 11 = 3 THEN "a" ELSE "b"]

ChunkCall(text, L, O, M) ==
    [pc |-> "call", text |-> text, L |-> L, O |-> O, M |-> M, out |-> <<>>]

InitChunk ==
    /\ urls = <<>>
    /\ chunks = {}
    /\ queue = <<>>
    /\ wk = IdleWorker
    /\ index = create_new_index.index
    /\ id_map = create_new_index.id_map
    /\ fileIndex = NoFile
    /\ fileMap = NoFile
    /\ alive = TRUE
    /\ session = "active"
    /\ loaded = FALSE
    /\ response = 0
    /\ returned = {}
    /\ retries = <<>>
    /\ nevents = 0
    /\ qr = NoQuery
    /\ other = NoSecondWorker
    /\ \/ \E text \in Texts : \E L \in 1..MaxL : \E O \in 0..(L - 1) : \E M \in 0..MaxM :
            cx = ChunkCall(text, L, O, M)
       \/ cx = ChunkCall(ScenarioText, DEFAULT_CHUNK_SIZE, DEFAULT_CHUNK_OVERLAP,
                         DEFAULT_MAX_CHUNKS_PER_URL)

chunk_text_call ==
    /\ cx.pc = "call"
    /\ cx' = [cx EXCEPT !.pc = "done",
                        !.out = chunk_text_with(cx.text, cx.L, cx.O, cx.M)]
    /\ UNCHANGED sysvars

NextChunk == chunk_text_call

SpecChunk == InitChunk /\ [][NextChunk]_vars

----------------------------------------------------------------------------
(* C9: for every text and every L, O, M with 0 <= O < L and M >= 0, chunk_text
   returns the sequence whose i-th element (from 0) is
   text[i*(L-O) : i*(L-O)+L] clipped to the text, for every i with
   i*(L-O) < len(text) and i < M; the empty text gives the empty sequence, and
   1200 characters with L=500, O=50 give [0,500), [450,950), [900,1200). *)

ExpectedCount(text, L, O, M) ==
    Cardinality({i \in 0..Len(text) : i * (L - O) < Len(text) /\ i < M})

ExpectedChunks(text, L, O, M) ==
    [k \in 1..ExpectedCount(text, L, O, M) |->
        SubSeq(text, (k - 1) * (L - O) + 1, Min((k - 1) * (L - O) + L, Len(text)))]

C9_ChunkSequence ==
    cx.pc = "done" =>
        /\ cx.out = ExpectedChunks(cx.text, cx.L, cx.O, cx.M)
        /\ (cx.text = <<>> => cx.out = <<>>)
        /\ (cx.text = ScenarioText /\ cx.L = 500 /\ cx.O = 50 /\ cx.M >= 3 =>
                cx.out = <<SubSeq(cx.text, 1, 500), SubSeq(cx.text, 451, 950),
                           SubSeq(cx.text, 901, 1200)>>)

(* a call that produced three chunks with an overlap, the last one clipped,
   and a call cut at the maximum M *)
C9_Witness ==
    /\ cx.pc = "done"
    /\ cx.O >= 1
    /\ Len(cx.out) = 3
    /\ Len(cx.out[3]) < cx.L
    /\ cx.M = 3
    /\ 3 * (cx.L - cx.O) < Len(cx.text)

(* C10: chunk coverage.  When O < L and fewer than M chunks were produced, the
   first L-O characters of each chunk (fewer when the chunk is shorter),
   concatenated in order, are the original text. *)

RECURSIVE ConcatRegions(_, _, _)
ConcatRegions(out, i, width) ==
    IF i > Len(out) THEN <<>>
    ELSE SubSeq(out[i], 1, Min(width, Len(out[i]))) \o ConcatRegions(out, i + 1, width)

C10_ChunkCoverage ==
    (cx.pc = "done" /\ cx.O < cx.L /\ Len(cx.out) < cx.M) =>
        ConcatRegions(cx.out, 1, cx.L - cx.O) = cx.text

(* a call with an overlap and several chunks, none cut by the maximum *)
C10_Witness ==
    /\ cx.pc = "done"
    /\ cx.O >= 1
    /\ Len(cx.out) >= 3
    /\ Len(cx.out) < cx.M
    /\ Len(cx.text) > 0

----------------------------------------------------------------------------
(* C1: the status of a URL record changes only along PENDING -> PROCESSING,
   PROCESSING -> COMPLETED, PROCESSING -> FAILED and FAILED -> PENDING, and
   FAILED -> PENDING only in a step in which an ingestion request for that
   URL arrives. *)

AllowedTransitions ==
    {<<PENDING, PROCESSING>>, <<PROCESSING, COMPLETED>>, <<PROCESSING, FAILED>>,
     <<FAILED, PENDING>>}

IngestArrives(u) ==
    /\ nevents' = nevents + 1
    /\ response' = 202
    /\ queue' = Append(queue, Job(u))

C1_Step ==
    \A u \in DOMAIN urls :
        (u \in DOMAIN urls' /\ urls'[u].status # urls[u].status) =>
            /\ <<urls[u].status, urls'[u].status>> \in AllowedTransitions
            /\ (urls[u].status = FAILED => IngestArrives(u))

C1_StatusMachine == [][C1_Step]_vars

(* C2: the number of vectors in the index equals the number of entries of
   id_map, and every key of id_map is in [0, number of vectors). *)
C2_IndexConsistent ==
    /\ ntotal(index) = Cardinality(DOMAIN id_map)
    /\ \A p \in DOMAIN id_map : 0 <= p /\ p < ntotal(index)

(* an add_embeddings call has just returned on a store that was loaded from
   the files and was not empty *)
C2_Witness ==
    /\ loaded
    /\ wk.pc = "update"
    /\ Len(wk.faiss_ids) >= 2
    /\ wk.faiss_ids[1] > 0

(* C3: every chunk row is the value of at most one position of id_map, and
   every chunk row of a COMPLETED URL is the value of exactly one. *)
PositionsOf(id) == {p \in DOMAIN id_map : id_map[p] = id}

C3_ExactlyOnce ==
    \A c \in chunks :
        /\ Cardinality(PositionsOf(c.id)) <= 1
        /\ (urls[c.url].status = COMPLETED => Cardinality(PositionsOf(c.id)) = 1)

(* C4: a position returned by add_embeddings was never returned before, also
   after a restart of the worker; no two chunk rows hold the same faiss_id and
   a faiss_id, once set, does not change. *)
C4_Unique ==
    \A c \in chunks : \A d \in chunks :
        (c.faiss_id # NoFaissId /\ c.faiss_id = d.faiss_id) => c.id = d.id

C4_Step ==
    /\ (wk.pc = "embed" /\ wk'.pc = "update") =>
          /\ \A i \in DOMAIN wk'.faiss_ids : wk'.faiss_ids[i] \notin returned
          /\ \A i \in DOMAIN wk'.faiss_ids : \A j \in DOMAIN wk'.faiss_ids :
                wk'.faiss_ids[i] = wk'.faiss_ids[j] => i = j
    /\ \A c \in chunks : \A d \in chunks' :
          (c.faiss_id # NoFaissId /\ d.id = c.id) => d.faiss_id = c.faiss_id

C4_PositionsNeverReused == [](C4_Unique) /\ [][C4_Step]_vars

(* a job completed after a restart that loaded the files, with positions
   that follow those of an earlier job *)
C4_Witness ==
    /\ loaded
    /\ wk.pc = "idle"
    /\ wk.result = "completed"
    /\ Cardinality(DOMAIN urls) = 2
    /\ \A u \in DOMAIN urls : urls[u].status = COMPLETED
    /\ \E c \in ChunksOf(chunks, wk.url) : c.faiss_id > 0
    /\ \E c \in chunks : c.url # wk.url /\ c.faiss_id = 0

(* C5: retry idempotence.  When a job has completed, also one for a URL whose
   earlier attempt failed after its chunk rows were created, the URL is
   COMPLETED, its chunk_count and its chunk rows (number, chunk_index,
   content) are those of the chunks of the fetched content alone: nothing of
   an earlier attempt remains. *)
FreshRows(content) ==
    {<<i - 1, chunk_text(content)[i]>> : i \in DOMAIN chunk_text(content)}

C5_RetryIdempotent ==
    (wk.pc = "idle" /\ wk.result = "completed") =>
        /\ urls[wk.url].status = COMPLETED
        /\ urls[wk.url].chunk_count = Len(chunk_text(wk.content))
        /\ Cardinality(ChunksOf(chunks, wk.url)) = Len(chunk_text(wk.content))
        /\ {<<c.chunk_index, c.content>> : c \in ChunksOf(chunks, wk.url)}
               = FreshRows(wk.content)

(* the URL failed after its chunk rows were created, was submitted again
   (FAILED -> PENDING) and its second job, which purged those rows, completed *)
C5_Witness ==
    /\ wk.pc = "idle"
    /\ wk.result = "completed"
    /\ wk.purged > 0
    /\ retries[wk.url] = 1
    /\ nevents = 2
    /\ queue = <<>>

(* C6: a URL record becomes COMPLETED only at the end of a job in which the
   fetch, the chunking, the creation of the chunk rows, the embedding and the
   index update all succeeded; while it is COMPLETED its chunk_count is the
   number of its chunk rows, its content_length is the length of the cleaned
   text, completed_at is set and each of its chunk rows has a faiss_id. *)
C6_Inv ==
    \A u \in DOMAIN urls :
        urls[u].status = COMPLETED =>
            /\ urls[u].chunk_count = Cardinality(ChunksOf(chunks, u))
            /\ urls[u].chunk_count > 0
            /\ urls[u].completed_at # NULL
            /\ \A c \in ChunksOf(chunks, u) : c.faiss_id # NoFaissId

C6_Step ==
    \A u \in DOMAIN urls' :
        /\ (urls'[u].status = COMPLETED /\ (u \notin DOMAIN urls \/ urls[u].status # COMPLETED)) =>
              /\ wk.pc = "update"
              /\ wk.url = u
              /\ wk.fetched
              /\ wk.texts = chunk_text(wk.content)
              /\ wk.texts # <<>>
              /\ Len(wk.chunk_ids) = Len(wk.texts)
              /\ Len(wk.faiss_ids) = Len(wk.texts)
              /\ \A i \in DOMAIN wk.texts :
                    /\ \E c \in ChunksOf(chunks, u) :
                          c.id = wk.chunk_ids[i] /\ c.content = wk.texts[i]
                    /\ wk.faiss_ids[i] \in DOMAIN id_map
                    /\ id_map[wk.faiss_ids[i]] = wk.chunk_ids[i]
                    /\ index[wk.faiss_ids[i] + 1] = Embed(wk.texts[i])
                    /\ fileIndex = File(write_index(index))
                    /\ fileMap = File(pickle_dump(id_map))
              /\ urls'[u].content_length = Len(wk.content)
        /\ (u \in DOMAIN urls /\ urls[u].status = COMPLETED /\ urls'[u].status = COMPLETED) =>
              urls'[u].content_length = urls[u].content_length

C6_CompletedOnlyAfterSuccess == [](C6_Inv) /\ [][C6_Step]_vars

(* a COMPLETED record of a text longer than its chunks cover: two chunk rows,
   content_length 6 *)
C6_Witness ==
    \E u \in DOMAIN urls :
        /\ urls[u].status = COMPLETED
        /\ urls[u].chunk_count = 2
        /\ urls[u].content_length = 6
        /\ \E c \in ChunksOf(chunks, u) : c.faiss_id = 1

(* C7: when a step of a job raises after the status was set to PROCESSING,
   the job ends with the URL record FAILED and an error message recorded, and
   the worker pushes nothing on the queue. *)
JobEndsWithoutCompleting ==
    /\ wk.pc \in {"purge", "fetch", "embed", "update"}
    /\ wk'.pc = "idle"
    /\ wk'.result # "completed"

C7_Step ==
    /\ JobEndsWithoutCompleting =>
          /\ urls'[wk.url].status = FAILED
          /\ urls'[wk.url].error_message # NULL
    /\ nevents' = nevents => Len(queue') <= Len(queue)

C7_FailedOnError == [][C7_Step]_vars

(* C8: a failure while processing one job never stops the worker loop: the
   loop is running, it can pop whenever it is idle and the queue is not
   empty, and every popped job whose URL has a record is processed (its
   record is set to PROCESSING). *)
C8_Inv ==
    /\ alive
    /\ (wk.pc = "idle" /\ queue # <<>>) => ENABLED run_pop

C8_Step ==
    (wk.pc = "idle" /\ queue # <<>> /\ queue' = Tail(queue)) =>
        LET payload == Head(queue) IN
        (payload.kind = "job" /\ payload.url \in DOMAIN urls) =>
            /\ wk'.pc = "purge"
            /\ urls'[payload.url].status = PROCESSING

C8_WorkerKeepsProcessing == [](C8_Inv) /\ [][C8_Step]_vars

----------------------------------------------------------------------------
(* search on its own: the store (vectors and id_map), the query and k are
   drawn in the initial state.  The id_map holds every position, or every
   position but the last (a map file older than the index file). *)

MaxVectors == 3
MaxK == 3

Vectors == {Embed(<<"a", "b">>), Embed(<<"a", "b", "c">>), Embed(<<"c", "d", "e">>)}

RECURSIVE IndexesOfLen(_)
IndexesOfLen(n) ==
    IF n = 0 THEN {<<>>}
    ELSE {Append(ix, v) : ix \in IndexesOfLen(n - 1), v \in Vectors}

Indexes == UNION {IndexesOfLen(n) : n \in 0..MaxVectors}

(* id_map after add_embeddings calls that gave position p the chunk id p + 1 *)
MapOfFirst(n) == [p \in 0..(n - 1) |-> p + 1]

SearchQueries == {<<"a">>, <<"b", "b", "b">>}

SearchCall(ix, map, query, k) ==
    [pc |-> "search", ix |-> ix, map |-> map, query |-> query, k |-> k, out |-> <<>>]

InitSearch ==
    /\ urls = <<>>
    /\ chunks = {}
    /\ queue = <<>>
    /\ wk = IdleWorker
    /\ index = create_new_index.index
    /\ id_map = create_new_index.id_map
    /\ fileIndex = NoFile
    /\ fileMap = NoFile
    /\ alive = TRUE
    /\ session = "active"
    /\ loaded = FALSE
    /\ response = 0
    /\ returned = {}
    /\ retries = <<>>
    /\ nevents = 0
    /\ qr = NoQuery
    /\ other = NoSecondWorker
    /\ \E ix \in Indexes : \E n \in {Len(ix), Max(Len(ix) - 1, 0)} :
       \E query \in SearchQueries : \E k \in 1..MaxK :
           cx = SearchCall(ix, MapOfFirst(n), query, k)

search_call ==
    /\ cx.pc = "search"
    /\ cx' = [cx EXCEPT !.pc = "found", !.out = search(cx.ix, cx.map, cx.query, cx.k)]
    /\ UNCHANGED sysvars

NextSearch == search_call

SpecSearch == InitSearch /\ [][NextSearch]_vars

Sorted(results) ==
    \A i \in 1..(Len(results) - 1) : results[i][2] <= results[i + 1][2]

(* C11: for every store, every query and every k >= 1, search returns
   (chunk_id, distance) pairs in non-decreasing order of distance, at most
   min(k, number of vectors) of them, and none when the index is empty; each
   pair is the chunk id of a position of the index with the distance of its
   vector to the query. *)
C11_SearchOrdered ==
    cx.pc = "found" =>
        /\ Sorted(cx.out)
        /\ Len(cx.out) <= Min(cx.k, ntotal(cx.ix))
        /\ (ntotal(cx.ix) = 0 => cx.out = <<>>)
        /\ \A i \in DOMAIN cx.out :
              \E p \in DOMAIN cx.map :
                  /\ cx.out[i][1] = cx.map[p]
                  /\ cx.out[i][2] = L2(cx.ix[p + 1], Embed(cx.query))

(* a search with k = 3 on an index of two vectors that returned both, the
   vector added last first *)
C11_Witness ==
    /\ cx.pc = "found"
    /\ cx.k = 3
    /\ ntotal(cx.ix) = 2
    /\ Len(cx.out) = 2
    /\ cx.out[1][2] < cx.out[2][2]
    /\ cx.out[1][1] > cx.out[2][1]

----------------------------------------------------------------------------
(* C12: when the search of a query returns at least one result, the response
   is 200 and its sources are the search results in their order (nearest
   first), one per result whose chunk id has a chunk row, with the distance of
   the result and the chunk_index and content of the row; a result whose chunk
   id has no row is left out. *)
HasRow(hit) == \E c \in committed_chunks : c.id = hit[1]

C12_Step ==
    \A body \in QueryBodies :
        (/\ qr'.hits # <<>>
         /\ body.kind = "query"
         /\ qr'.query = body.query
         /\ qr'.top_k = body.top_k
         /\ query_rag(body)) =>
            LET kept == SelectSeq(qr'.hits, HasRow) IN
            /\ qr'.status = 200
            /\ Sorted(qr'.hits)
            /\ Len(qr'.sources) = Len(kept)
            /\ \A i \in DOMAIN kept :
                  /\ qr'.sources[i].distance = kept[i][2]
                  /\ \E c \in committed_chunks :
                        /\ c.id = kept[i][1]
                        /\ qr'.sources[i].chunk_index = c.chunk_index
                        /\ qr'.sources[i].content = Take(c.content, SOURCE_CONTENT_MAX)

C12_SourcesAreLiveHits == [][C12_Step]_vars

(* an answered query with three search results of which the two nearer ones
   have no committed chunk row: the only source is the third result *)
C12_Witness ==
    /\ qr.status = 200
    /\ Len(qr.hits) = 3
    /\ qr.hits[1][2] < qr.hits[2][2]
    /\ qr.hits[2][2] < qr.hits[3][2]
    /\ Len(qr.sources) = 1
    /\ qr.sources[1].distance = qr.hits[3][2]

(* C13: when the search of a valid query returns nothing, as it does on an
   empty index, the response is 200 with the canned answer and no sources,
   and generate_answer was not called. *)
C13_Step ==
    \A body \in QueryBodies :
        (/\ body.kind = "query"
         /\ ValidQuery(body.query, body.top_k)
         /\ qr'.query = body.query
         /\ qr'.top_k = body.top_k
         /\ query_rag(body)
         /\ LET vs == get_vector_store IN
            \/ ntotal(vs.index) = 0
            \/ search(vs.index, vs.id_map, body.query, body.top_k) = <<>>) =>
            /\ qr'.status = 200
            /\ qr'.answer = NoContentAnswer
            /\ qr'.sources = <<>>
            /\ qr'.llm_calls = 0

C13_NoResultsNoGeneration == [][C13_Step]_vars

(* a valid query with top_k = 3 was answered with the canned text while no
   index file exists and a URL is waiting to be processed *)
C13_Witness ==
    /\ qr.status = 200
    /\ qr.top_k = 3
    /\ qr.answer = NoContentAnswer
    /\ qr.llm_calls = 0
    /\ ~fileIndex.exists
    /\ queue # <<>>

(* C16: a query, whatever its outcome, leaves the URL rows, the chunk rows,
   the queue and the two index files as they were; the chunk rows and the
   index files change only in a step of a job of the worker. *)
C16_Step ==
    /\ \A body \in QueryBodies :
          (nevents' = nevents + 1 /\ qr'.status # 0 /\ query_rag(body)) =>
              UNCHANGED <<urls, chunks, queue, fileIndex, fileMap>>
    /\ (chunks' # chunks \/ fileIndex' # fileIndex \/ fileMap' # fileMap) =>
          /\ wk.pc \in {"purge", "fetch", "embed", "update"}
          /\ qr' = qr

C16_QueryReadsOnly == [][C16_Step]_vars

(* a query was answered with sources while a job is waiting and a URL is
   COMPLETED *)
C16_Witness ==
    /\ qr.status = 200
    /\ qr.sources # <<>>
    /\ queue # <<>>
    /\ fileIndex.exists
    /\ \E u \in DOMAIN urls : urls[u].status = COMPLETED

----------------------------------------------------------------------------
(* C14: round-trip persistence.  Saving the worker's store and loading the
   files in a new VectorStore gives the same vectors and the same id_map; the
   files on disk, while both are intact, load to the store the worker holds,
   so a search on the loaded store returns what a search on the worker's
   store returns (compared after every add_embeddings, for k = MaxK, of
   which the results for a smaller k are a prefix). *)
C14_RoundTrip ==
    LET saved == save_index(index, id_map)
        vs == load_or_create_index(saved.fileIndex, saved.fileMap)
    IN /\ vs.loaded /\ vs.index = index /\ vs.id_map = id_map
       /\ (fileIndex.exists /\ fileMap.exists /\ fileIndex.readable /\ fileMap.readable) =>
             fileIndex = saved.fileIndex /\ fileMap = saved.fileMap
       /\ wk.pc = "update" =>
             \A q \in SearchQueries :
                 search(vs.index, vs.id_map, q, MaxK) = search(index, id_map, q, MaxK)

(* add_embeddings has saved a store of four vectors that had been loaded
   from the files of an earlier run *)
C14_Witness ==
    /\ loaded
    /\ wk.pc = "update"
    /\ ntotal(index) = 4
    /\ fileIndex.exists
    /\ fileIndex.data.ntotal = 4
    /\ Len(fileMap.data) = 4

(* C15: constructing the store never fails.  At a restart of the worker the
   store holds the contents of the two files when both exist and both load;
   when a file is missing or reading one of them raises, the index is empty
   and the id_map is empty. *)
C15_Step ==
    restart_worker =>
        /\ alive'
        /\ wk'.pc = "idle"
        /\ IF /\ fileIndex.exists /\ fileMap.exists
              /\ fileIndex.readable /\ fileMap.readable
           THEN /\ index' = read_index(fileIndex.data)
                /\ id_map' = pickle_load(fileMap.data)
                /\ ntotal(index') = fileIndex.data.ntotal
                /\ loaded'
           ELSE /\ ntotal(index') = 0
                /\ id_map' = EmptyMap
                /\ ~loaded'

C15_LoadNeverFails == [][C15_Step]_vars

(* the worker was restarted with a readable index file of two vectors and a
   damaged map file: its store is empty *)
C15_Witness ==
    /\ wk = IdleWorker
    /\ ~loaded
    /\ fileIndex.exists /\ fileIndex.readable /\ fileIndex.data.ntotal = 2
    /\ fileMap.exists /\ ~fileMap.readable
    /\ ntotal(index) = 0
    /\ id_map = EmptyMap

----------------------------------------------------------------------------
(* C17: an ingestion request for a URL whose row is COMPLETED is answered 200
   and one for a PROCESSING URL 202, and neither changes a URL row or the
   queue; a request for a URL without a row creates its PENDING row and
   appends one job for it to the queue; a request for a FAILED URL sets it
   to PENDING, clears its error message and appends one job for it. *)
C17_Step ==
    \A body \in IngestBodies :
        (body.kind = "url" /\ ValidUrl(body.url) /\ ingest_url(body)) =>
            LET u == body.url IN
            /\ (u \in DOMAIN urls /\ urls[u].status = COMPLETED) =>
                  response' = 200 /\ UNCHANGED <<urls, queue>>
            /\ (u \in DOMAIN urls /\ urls[u].status = PROCESSING) =>
                  response' = 202 /\ UNCHANGED <<urls, queue>>
            /\ u \notin DOMAIN urls =>
                  /\ response' = 202
                  /\ DOMAIN urls' = DOMAIN urls \cup {u}
                  /\ urls'[u] = NewUrlRow
                  /\ urls'[u].status = PENDING
                  /\ \A v \in DOMAIN urls : urls'[v] = urls[v]
                  /\ queue' = Append(queue, Job(u))
            /\ (u \in DOMAIN urls /\ urls[u].status = FAILED) =>
                  /\ response' = 202
                  /\ urls' = [urls EXCEPT ![u].status = PENDING,
                                          ![u].error_message = NULL]
                  /\ queue' = Append(queue, Job(u))

C17_IngestFrame == [][C17_Step]_vars

(* a FAILED URL was submitted again: it is PENDING without an error message
   and its job is the last of the queue, behind the job of another URL *)
C17_Witness ==
    /\ response = 202
    /\ Len(queue) = 2
    /\ queue[1].kind = "job" /\ queue[2].kind = "job"
    /\ queue[1].url # queue[2].url
    /\ queue[2].url \in DOMAIN urls
    /\ retries[queue[2].url] = 1
    /\ urls[queue[2].url].status = PENDING
    /\ urls[queue[2].url].error_message = NULL
    /\ urls[queue[2].url].content_length > 0

(* C18: when the worker pops a job whose URL has no row, process_url returns
   with nothing changed: the URL rows, the chunk rows, the index, the id_map
   and the index files are as before, the job is gone from the queue and not
   pushed back, and the loop goes on. *)
C18_Step ==
    (/\ wk.pc = "idle"
     /\ queue # <<>>
     /\ Head(queue).kind = "job"
     /\ Head(queue).url \notin DOMAIN urls
     /\ run_pop) =>
        /\ UNCHANGED <<urls, chunks, index, id_map, fileIndex, fileMap>>
        /\ queue' = Tail(queue)
        /\ wk'.pc = "idle"
        /\ alive'

C18_UnknownUrlDropped == [][C18_Step]_vars

(* the job of a URL without a row was dropped while another job waits and
   the index holds the chunks of a COMPLETED URL *)
C18_Witness ==
    /\ wk.pc = "idle"
    /\ wk.result = "dropped"
    /\ wk.url \notin DOMAIN urls
    /\ queue # <<>>
    /\ ntotal(index) > 0
    /\ \E u \in DOMAIN urls : urls[u].status = COMPLETED

(* C19: when a job fails after its chunk rows were created (the embedding
   raises), the URL is FAILED and the rows of that attempt are in the table
   without a faiss_id; the chunk rows of a URL do not change while it stays
   FAILED; and whenever chunk rows are created for a URL, no chunk row of
   that URL is left from before. *)
C19_Step ==
    /\ (wk.pc = "embed" /\ wk'.pc = "idle") =>
          /\ urls'[wk.url].status = FAILED
          /\ \A i \in DOMAIN wk.chunk_ids :
                \E c \in chunks' :
                    /\ c.id = wk.chunk_ids[i]
                    /\ c.url = wk.url
                    /\ c.content = wk.texts[i]
                    /\ c.faiss_id = NoFaissId
    /\ \A u \in DOMAIN urls :
          /\ (urls[u].status = FAILED /\ urls'[u].status = FAILED) =>
                /\ ChunksOf(chunks', u) = ChunksOf(chunks, u)
                /\ \A c \in ChunksOf(chunks, u) : c.faiss_id = NoFaissId
          /\ ChunkIds(ChunksOf(chunks', u)) \ ChunkIds(ChunksOf(chunks, u)) # {} =>
                /\ ChunksOf(chunks, u) = {}
                /\ wk.pc = "fetch"
                /\ wk.url = u

C19_OrphansUntilRetry == [][C19_Step]_vars

(* the retry of a URL whose first attempt failed at the embedding: the two
   rows of that attempt were deleted and the rows of the URL are the new
   ones, still without a faiss_id *)
C19_Witness ==
    /\ wk.pc = "embed"
    /\ wk.url \in DOMAIN urls
    /\ retries[wk.url] = 1
    /\ wk.purged = 2
    /\ Cardinality(ChunksOf(chunks, wk.url)) = Len(wk.chunk_ids)
    /\ \A c \in ChunksOf(chunks, wk.url) : c.faiss_id = NoFaissId

----------------------------------------------------------------------------
(* C20: with two worker processes, each with its own VectorStore, a state is
   reached in which one position of the index stands for two different chunk
   rows, or in which the save of one worker has overwritten the entries the
   other had appended to the files; as long as a single worker runs, no such
   state is reached, and no entry of its id_map is ever replaced. *)
PersistedMap ==
    IF fileMap.exists /\ fileMap.readable THEN pickle_load(fileMap.data) ELSE EmptyMap

(* the position of a chunk row is missing in the saved map or stands for
   another chunk id there *)
Overwritten ==
    \E c \in chunks :
        /\ c.faiss_id # NoFaissId
        /\ \/ c.faiss_id \notin DOMAIN PersistedMap
           \/ PersistedMap[c.faiss_id] # c.id

(* two chunk rows hold the same position, or the two workers gave one
   position to two different chunk ids *)
Collision ==
    \/ ~faiss_id_unique(chunks)
    \/ /\ other.started
       /\ \E p \in DOMAIN id_map \cap DOMAIN other.id_map : id_map[p] # other.id_map[p]

C20_Inv == (Overwritten \/ Collision) => other.started

C20_Step ==
    ~other.started =>
        \A p \in DOMAIN id_map : p \in DOMAIN id_map' /\ id_map'[p] = id_map[p]

C20_CorruptionNeedsTwoWorkers == [](C20_Inv) /\ [][C20_Step]_vars

(* two workers, both started on the empty index, each processed one URL: the
   second save replaced the entries of the first, whose COMPLETED chunk rows
   hold positions that now stand for other chunk ids *)
C20_Witness ==
    /\ other.started
    /\ Overwritten
    /\ \E p \in DOMAIN id_map \cap DOMAIN other.id_map : id_map[p] # other.id_map[p]
    /\ \E u \in DOMAIN urls : urls[u].status = COMPLETED
    /\ ntotal(index) = 2 /\ ntotal(other.index) = 2

----------------------------------------------------------------------------
(* C21: the store a query searches (the pair of files loaded by
   get_vector_store while the worker may be inside add_embeddings) has as
   many vectors as id_map entries and is the worker's store before or after
   the whole add, never the index of one save with the id_map of another. *)
StoreBeforeAdd ==
    IF wk.pc = "save"
    THEN [index |-> SubSeq(index, 1, wk.faiss_ids[1]),
          id_map |-> [p \in {q \in DOMAIN id_map : q < wk.faiss_ids[1]} |-> id_map[p]]]
    ELSE [index |-> index, id_map |-> id_map]

C21_Step ==
    \A body \in QueryBodies :
        (/\ body.kind = "query"
         /\ ValidQuery(body.query, body.top_k)
         /\ qr'.query = body.query
         /\ qr'.top_k = body.top_k
         /\ query_rag(body)) =>
            LET vs == get_vector_store IN
            /\ ntotal(vs.index) = Cardinality(DOMAIN vs.id_map)
            /\ \/ vs.index = index /\ vs.id_map = id_map
               \/ vs.index = StoreBeforeAdd.index /\ vs.id_map = StoreBeforeAdd.id_map

C21_ConsistentSnapshot == [][C21_Step]_vars

----------------------------------------------------------------------------
(* C22: with a single worker, every chunk row that has a faiss_id p is the
   row position p of the worker's id_map stands for: p is a key of id_map and
   id_map[p] is the id of that row. *)
C22_JoinConsistent ==
    \A c \in chunks :
        c.faiss_id # NoFaissId =>
            /\ c.faiss_id \in DOMAIN id_map
            /\ id_map[c.faiss_id] = c.id

(* a second job of a URL has completed: its two rows took the ids 1 and 2 of
   the deleted rows again and hold the positions 2 and 3 *)
C22_Witness ==
    /\ wk.pc = "idle"
    /\ wk.result = "completed"
    /\ \E c \in chunks : c.id = 1 /\ c.faiss_id = 2
    /\ \E c \in chunks : c.id = 2 /\ c.faiss_id = 3
    /\ ntotal(index) = 4

----------------------------------------------------------------------------
(* C23: under a fair worker, every URL record that a job has set to
   PROCESSING eventually is COMPLETED or FAILED, also when a commit of the
   metadata store raises. *)
Settled(u) == u \in DOMAIN urls /\ urls[u].status \in {COMPLETED, FAILED}

InProcessing(u) == u \in DOMAIN urls /\ urls[u].status = PROCESSING

C23_ProcessingEnds == \A u \in {U1, U2} : InProcessing(u) ~> Settled(u)

----------------------------------------------------------------------------
(* C24: every URL record that is PENDING has a job on the queue or in the
   hands of the worker, so that a fair worker eventually processes it. *)
HasJob(u) ==
    \/ \E i \in DOMAIN queue : queue[i] = Job(u)
    \/ wk.pc # "idle" /\ wk.url = u

(* a record that is PROCESSING without a job stays so at every step, whatever
   requests, pushes and restarts follow *)
C23_StuckStays ==
    [][\A u \in DOMAIN urls :
          (urls[u].status = PROCESSING /\ ~HasJob(u)) =>
              (urls'[u].status = PROCESSING /\ ~HasJob(u)')]_vars

C23_Stuck ==
    \E u \in DOMAIN urls : urls[u].status = PROCESSING /\ ~HasJob(u) /\ nevents = 1

C24_PendingHasJob ==
    \A u \in DOMAIN urls : urls[u].status = PENDING => HasJob(u)

C24_PendingLeaves ==
    \A u \in {U1, U2} :
        (u \in DOMAIN urls /\ urls[u].status = PENDING)
            ~> (u \in DOMAIN urls /\ urls[u].status # PENDING)

----------------------------------------------------------------------------
(* C25: a URL record that is COMPLETED has no error message, also when
   several jobs of the URL were queued while it was PENDING. *)
C25_CompletedHasNoError ==
    \A u \in DOMAIN urls :
        urls[u].status = COMPLETED => urls[u].error_message = NULL

----------------------------------------------------------------------------
(* C26 as stated: generate_answer is called only with a context that is not
   empty, that is only when a search result has a chunk row. *)
C26_Original_Step ==
    \A body \in QueryBodies :
        (/\ body.kind = "query"
         /\ qr'.query = body.query
         /\ qr'.top_k = body.top_k
         /\ qr'.llm_calls > 0
         /\ query_rag(body)) =>
            /\ qr'.sources # <<>>
            /\ Context(qr'.sources) # <<>>

C26_CalledOnlyWithContext == [][C26_Original_Step]_vars

(* C26, amended: generate_answer is called, once, exactly when the search
   returned a result; its context holds the content of the results that have
   a chunk row and is empty when none of them has one. *)
C26_Step ==
    \A body \in QueryBodies :
        (/\ body.kind = "query"
         /\ ValidQuery(body.query, body.top_k)
         /\ qr'.query = body.query
         /\ qr'.top_k = body.top_k
         /\ query_rag(body)) =>
            /\ qr'.llm_calls = (IF qr'.hits = <<>> THEN 0 ELSE 1)
            /\ qr'.llm_calls = 1 => qr'.answer = generate_answer(body.query, Context(qr'.sources))
            /\ Len(Context(qr'.sources)) = Len(SelectSeq(qr'.hits, HasRow))
            /\ (\A i \in DOMAIN qr'.hits : ~HasRow(qr'.hits[i])) => Context(qr'.sources) = <<>>

C26_CalledWhenSearchHits == [][C26_Step]_vars

(* a query found one position of the index while the chunk row of that
   position was not committed yet: the model was asked with an empty context *)
C26_Witness ==
    /\ qr.status = 200
    /\ qr.hits # <<>>
    /\ qr.sources = <<>>
    /\ qr.llm_calls = 1
    /\ qr.answer = generate_answer(qr.query, <<>>)

====
